---- MODULE Spec2Model ----
(***************************************************************************)
(* Soter file vault: the ingest path (upload session, UploadFile,          *)
(* deduplication by content hash, object store, user file references),     *)
(* soft delete, download, and the database triggers that maintain the      *)
(* blob reference count and the organization storage statistics.           *)
(*                                                                         *)
(* Abstractions.  A byte sequence is a record [len, k]: its length and a   *)
(* tag k that tells apart distinct sequences of the same length.  SHA-256  *)
(* is taken to be collision free on the contents of the model, so the      *)
(* digest of a byte sequence is a value that determines, and is            *)
(* determined by, the sequence.  Every GORM call runs in its own           *)
(* autocommitted statement (UploadFile opens no transaction), so each      *)
(* statement of UploadFile is one step and requests interleave between     *)
(* statements.                                                             *)
(*                                                                         *)
(* PermSpec applies the two permission resolvers                           *)
(* (calculateUserFilePermissions, ParseLinuxPermissions) to inputs drawn   *)
(* from bounded sets.  RateSpec runs requests of authenticated users       *)
(* through the handler chain of the protected routes, with the token       *)
(* buckets of the rate limiter, against a clock that advances in ticks.    *)
(* SessionSpec runs the four upload-session endpoints.  AuditSpec runs     *)
(* requests through AuditMiddleware and its logging goroutine;             *)
(* AuditLiveSpec adds that every goroutine started is eventually run.      *)
(* OrgSpec runs the transaction of OrganizationRepository.Create, statement*)
(* by statement, with the triggers of SQL migration 003 when applied.      *)
(* ValidateSpec applies file validation (size, filename, virus scan) to    *)
(* one upload drawn from bounded sets of names, sizes and scanner          *)
(* answers.  ReaperSpec runs the cleanup of the rate limiter's buckets     *)
(* against a clock of minutes.  FaultSpec is the upload path in which the  *)
(* lookup by content hash may fail.                                        *)
(***************************************************************************)
EXTENDS Integers, Sequences, FiniteSets, TLC

\* ---------------------------------------------------------------- bounds
MaxReq == 2
AllocatedSpaceMB == 1

MaxTime == 5
MaxCalls == 7
\* resolution of the clock: ticks per second
TicksPerSecond == 10
\* session tokens handed out; complete-session calls counted per token
MaxSessions == 2
MaxCompletes == 2
\* requests that reach the audit middleware
MaxAuditRequests == 2
\* calls of OrganizationRepository.Create
MaxOrgAttempts == 3

\* ------------------------------------------------------- program constants
\* RATE_LIMIT_RPS and RATE_LIMIT_BURST defaults
RateLimitRPS == 2
RateLimitBurst == 5
MiB == 1048576
\* MaxFileSize = 100 * 1024 * 1024 * 1024 bytes, written in MiB
MaxFileSizeMiB == 102400

\* ------------------------------------------------------------- principals
Users == {"u1", "u2", "u3"}
Orgs == {"o1", "o2"}

OrganizationID(u) == IF u = "u3" THEN "o2" ELSE "o1"

\* no row / nil pointer
Nil == "nil"

\* the system groups create_default_groups_for_organization inserts for
\* every organization that take part in a resolution
Groups == {"o1.admin", "o1.users", "o2.admin", "o2.users"}

GroupOrganizationID(g) == IF g \in {"o2.admin", "o2.users"} THEN "o2" ELSE "o1"

AdminGroup(org) == IF org = "o2" THEN "o2.admin" ELSE "o1.admin"

\* GetUserGroups of a user who registered into an existing organization:
\* Register assigns the default group 'users' of that organization
GetUserGroups(u) == IF OrganizationID(u) = "o2" THEN <<"o2.users">> ELSE <<"o1.users">>

\* handler UploadFile: FilePermissions: 644
DefaultFilePermissions == 644

\* ------------------------------------------------------------------ bytes
EmptyBytes == [len |-> 0, k |-> 0]

Contents ==
    { EmptyBytes,
      [len |-> 7, k |-> 1],
      [len |-> 1048570, k |-> 1],
      [len |-> 2097152, k |-> 1] }

Filenames == {"x.bin", "y.bin"}

NoHash == <<>>

\* sha256.Sum256 + hex.EncodeToString: a collision-free digest
Sha256(b) == <<"sha256", b.len, b.k>>

\* files/<h[0:2]>/<h[2:4]>/<h>
generateStoragePath(contentHash) == <<"files", contentHash>>

\* io.Copy(dst, reader): everything not yet read is copied and the reader
\* is left at end of file
ReadAll(rest) == [data |-> rest, rest |-> EmptyBytes]

\* ------------------------------------------------------------------ state
VARIABLES
    files,        \* table files: sequence of rows, the row id is the index
    userFiles,    \* table user_files: sequence of rows, the row id is the index
    store,        \* object store: storage path -> bytes held under that path
    putCount,     \* number of object-store writes performed per storage path
    refCount,     \* blob_metadata.reference_count per content hash
    usedSpaceMB,  \* organization_storage_stats.used_space_mb per organization
    allocatedMB,  \* organization_storage_stats.allocated_space_mb per organization
    reqs,         \* the upload requests and where each one stands
    lastResp,     \* response of the last metadata, download or delete request
    fileGroupPermissions, \* table file_group_permissions of the file under resolution
    permCheck,    \* last permission resolution: its inputs and both results
    now,          \* wall clock, in ticks
    userBuckets,  \* RateLimiter.userBuckets: user -> token bucket
    orgBuckets,   \* RateLimiter.orgBuckets: organization -> token bucket
    apiLog,       \* per user: time of the first API request, requests admitted and refused
    uploadSessions, \* table upload_sessions: sequence of rows, the row id is the index
    sessionOwner, \* session tokens handed out: token -> the user it was returned to
    sessionLog,   \* per token: was an ingest attempted under it, how often was it completed
    sessResp,     \* response of the last request to a session endpoint
    auditLogs,    \* table audit_logs: sequence of rows
    auditPending, \* requests served whose audit goroutine has not run yet
    ginContext,   \* the request that last filled the (pooled) gin.Context
    migration003, \* whether SQL migration 003 (groups, triggers) was applied to the database
    orgDb,        \* committed tables: organizations, groups, user_groups,
                  \* user_organizations, organization_storage_stats, users.organization_id
    orgTx,        \* the transaction of OrganizationRepository.Create in progress
    orgAttempts,  \* number of organization ids generated so far
    orgResult,    \* outcome of the last OrganizationRepository.Create
    lastValidation,   \* the last upload validated: what was sent, what validation answered
    idleBuckets       \* a RateLimiter seen by its cleanup: the clock and each bucket's lastAccess

fileVars == <<files, userFiles, store, putCount, refCount, usedSpaceMB, allocatedMB, reqs, lastResp>>
permVars == <<fileGroupPermissions, permCheck>>
rateVars == <<now, userBuckets, orgBuckets, apiLog>>
sessVars == <<uploadSessions, sessionOwner, sessionLog, sessResp>>
auditVars == <<auditLogs, auditPending, ginContext>>
orgVars == <<migration003, orgDb, orgTx, orgAttempts, orgResult>>
valVars == <<lastValidation>>
reaperVars == <<idleBuckets>>

vars == <<files, userFiles, store, putCount, refCount, usedSpaceMB, allocatedMB, reqs, lastResp,
          fileGroupPermissions, permCheck, now, userBuckets, orgBuckets, apiLog,
          uploadSessions, sessionOwner, sessionLog, sessResp,
          auditLogs, auditPending, ginContext,
          migration003, orgDb, orgTx, orgAttempts, orgResult,
          lastValidation, idleBuckets>>

ReqIds == 1..MaxReq

IdleReq ==
    [pc |-> "idle", user |-> "u1", content |-> EmptyBytes, rest |-> EmptyBytes,
     filename |-> "x.bin", folder |-> "/", hash |-> NoHash, size |-> 0,
     fileId |-> 0, userFileId |-> 0, isExisting |-> FALSE, savingsBytes |-> 0,
     status |-> "none", lookupErr |-> FALSE]

\* the zero value of models.FilePermissionCheck
NoPerm ==
    [CanRead |-> FALSE, CanWrite |-> FALSE, CanDownload |-> FALSE,
     CanDelete |-> FALSE, CanShare |-> FALSE,
     Owner |-> [Read |-> FALSE, Write |-> FALSE, Execute |-> FALSE],
     Group |-> [Read |-> FALSE, Write |-> FALSE, Execute |-> FALSE],
     Others |-> [Read |-> FALSE, Write |-> FALSE, Execute |-> FALSE]]

NoResp == [op |-> "none", user |-> "u1", id |-> 0, status |-> 0, body |-> EmptyBytes,
           perm |-> NoPerm]

\* no permission resolved yet
NoCheck ==
    [resolved |-> FALSE, userID |-> Nil, userGroupIDs |-> <<>>, fileOwnerID |-> Nil,
     filePrimaryGroupID |-> Nil, filePermissions |-> 0,
     calculated |-> NoPerm, parsed |-> NoPerm]

\* no API request of the user seen yet
NoCalls == [firstAt |-> 0, admitted |-> 0, refused |-> 0]

\* session tokens (uuid.New()): 1..MaxSessions are handed out in this order,
\* the last one is a token the service never returned
TokenIds == 1..(MaxSessions + 1)

NoSessionLog == [attempted |-> FALSE, completes |-> 0]

NoSessResp == [op |-> "none", user |-> "u1", token |-> 0, code |-> 0, status |-> "none"]

\* a gin.Context that no request has filled yet
NoRequest ==
    [method |-> "GET", path |-> <<>>, userID |-> Nil, op |-> "none",
     resource |-> Nil, code |-> 0]

\* the tables organization creation writes, with no row
EmptyOrgDb ==
    [organizations |-> {}, groups |-> {}, userGroups |-> {},
     userOrganizations |-> {}, stats |-> {}, userOrganizationId |-> <<>>]

NoTx == [pc |-> "idle", creator |-> "u1", name |-> "acme", id |-> 0, db |-> EmptyOrgDb]

NoOrgResult == [creator |-> "u1", id |-> 0, status |-> "none"]

\* no upload validated yet
NoValidation == [done |-> FALSE]

\* NewRateLimiter: both maps empty, the cleanup routine started, no tick yet
NewIdleBuckets ==
    [now |-> 0, lastCleanup |-> 0, userBuckets |-> <<>>, orgBuckets |-> <<>>,
     removed |-> {}]

Init ==
    /\ files = <<>>
    /\ userFiles = <<>>
    /\ store = <<>>
    /\ putCount = [h \in {} |-> 0]
    /\ refCount = [h \in {} |-> 0]
    /\ usedSpaceMB = [o \in Orgs |-> 0]
    /\ allocatedMB = [o \in Orgs |-> AllocatedSpaceMB]
    /\ reqs = [r \in ReqIds |-> IdleReq]
    /\ lastResp = NoResp
    /\ fileGroupPermissions = <<>>
    /\ permCheck = NoCheck
    /\ now = 0
    /\ userBuckets = <<>>
    /\ orgBuckets = <<>>
    /\ apiLog = [u \in Users |-> NoCalls]
    /\ uploadSessions = <<>>
    /\ sessionOwner = <<>>
    /\ sessionLog = [t \in TokenIds |-> NoSessionLog]
    /\ sessResp = NoSessResp
    /\ auditLogs = <<>>
    /\ auditPending = <<>>
    /\ ginContext = NoRequest
    /\ migration003 = FALSE
    /\ orgDb = EmptyOrgDb
    /\ orgTx = NoTx
    /\ orgAttempts = 0
    /\ orgResult = NoOrgResult
    /\ lastValidation = NoValidation
    /\ idleBuckets = NewIdleBuckets

\* ---------------------------------------------------------------- helpers
RECURSIVE SumSet(_)
SumSet(S) == IF S = {} THEN 0
             ELSE LET x == CHOOSE y \in S : TRUE IN x + SumSet(S \ {x})

FileIds == 1..Len(files)
UserFileIds == 1..Len(userFiles)

\* First(&file, "content_hash = ?"): the row id, or 0 for record not found
GetByContentHash(contentHash) ==
    IF \E i \in FileIds : files[i].contentHash = contentHash
    THEN CHOOSE i \in FileIds : files[i].contentHash = contentHash
    ELSE 0

\* validateFileSize
validateFileSize_AcceptsEmpty(size) ==
    ~(\/ size \div MiB > MaxFileSizeMiB
      \/ (size \div MiB = MaxFileSizeMiB /\ size % MiB > 0))
validateFileSize(size) ==
    /\ size # 0
    /\ ~(\/ size \div MiB > MaxFileSizeMiB
         \/ (size \div MiB = MaxFileSizeMiB /\ size % MiB > 0))

\* ValidateFile: reads the whole stream, hashes it and checks the size
ValidateFile(rest) ==
    LET rd == ReadAll(rest) IN
    [IsValid |-> validateFileSize(rd.data.len),
     ContentHash |-> Sha256(rd.data),
     FileSize |-> rd.data.len,
     rest |-> rd.rest]

\* CheckStorageQuota
CheckStorageQuota(org, additionalMB) ==
    (usedSpaceMB[org] + additionalMB) <= allocatedMB[org]

\* update_organization_storage_stats: SUM(DISTINCT f.file_size) / (1024*1024)
\* over the live references of the organization's users
OrgUsedMB(org, ufs, fs) ==
    SumSet({ fs[ufs[i].fileId].fileSize :
               i \in { j \in 1..Len(ufs) :
                         OrganizationID(ufs[j].userId) = org /\ ~ufs[j].isDeleted } })
      \div MiB

Started(r) == reqs[r].pc # "idle"
NextToStart(r) == reqs[r].pc = "idle" /\ \A q \in ReqIds : q < r => Started(q)

DoneOk == { q \in ReqIds : reqs[q].pc = "done" /\ reqs[q].status = "ok" }

Submitted(r, u, c, n) ==
    [reqs[r] EXCEPT !.user = u, !.content = c, !.rest = c, !.filename = n]

\* ------------------------------------------------------------ permissions

\* handler UploadFile: the first group of the uploader is the primary group
PrimaryGroupID(u) ==
    IF Len(GetUserGroups(u)) > 0 THEN GetUserGroups(u)[1] ELSE Nil

\* the members of a []uuid.UUID
Elems(seq) == { seq[i] : i \in 1..Len(seq) }

\* Permission.HasPermission for a single requested bit (4, 2 or 1):
\* int(p) & int(requested) == int(requested)
HasPermission(p, requested) == (p \div requested) % 2 = 1

CanRead(p) == HasPermission(p, 4)
CanWrite(p) == HasPermission(p, 2)
CanExecute(p) == HasPermission(p, 1)

\* the decimal digits of a permission such as 644
GetOwnerPermissions(p) == (p \div 100) % 10
GetGroupPermissions(p) == (p \div 10) % 10
GetOtherPermissions(p) == p % 10

\* FileRepository.calculateUserFilePermissions
calculateUserFilePermissions(userID, userGroupIDs, fileOwnerID, filePrimaryGroupID, filePermissions) ==
    LET perm == filePermissions
        groupMatch ==
            IF filePrimaryGroupID # Nil /\ filePrimaryGroupID \in Elems(userGroupIDs)
            THEN GetGroupPermissions(perm) ELSE 0
        effectivePermission ==
            IF fileOwnerID # Nil /\ fileOwnerID = userID
            THEN GetOwnerPermissions(perm)
            ELSE IF groupMatch = 0 THEN GetOtherPermissions(perm) ELSE groupMatch
    IN [NoPerm EXCEPT !.CanRead = CanRead(effectivePermission),
                      !.CanWrite = CanWrite(effectivePermission),
                      !.CanDownload = CanRead(effectivePermission),
                      !.CanDelete = CanWrite(effectivePermission),
                      !.CanShare = CanRead(effectivePermission)]

\* models.PermissionSet of three bits
PermissionSet(bits) ==
    [Read |-> (bits \div 4) % 2 = 1,
     Write |-> (bits \div 2) % 2 = 1,
     Execute |-> bits % 2 = 1]

\* models.ParseLinuxPermissions: the triads are taken from the binary digits
\* of the integer, (permissions >> 6) & 7, (permissions >> 3) & 7,
\* permissions & 7
ParseLinuxPermissions(permissions, userID, fileOwnerID, groupID, userGroupIDs) ==
    LET ownerPerms == (permissions \div 64) % 8
        groupPerms == (permissions \div 8) % 8
        otherPerms == permissions % 8
        Owner == PermissionSet(ownerPerms)
        Group == PermissionSet(groupPerms)
        Others == PermissionSet(otherPerms)
        userPerms ==
            IF fileOwnerID # Nil /\ fileOwnerID = userID THEN Owner
            ELSE IF groupID # Nil
                 THEN (IF groupID \in Elems(userGroupIDs) THEN Group ELSE Others)
                 ELSE Others
    IN [CanRead |-> userPerms.Read, CanWrite |-> userPerms.Write,
        CanDownload |-> userPerms.Read, CanDelete |-> userPerms.Write,
        CanShare |-> userPerms.Read,
        Owner |-> Owner, Group |-> Group, Others |-> Others]

\* ---------------------------------------------------------------- actions

\* FileHandler.CreateUploadSession: the only quota check of the ingest path
CreateUploadSession(r, u, c, n) ==
    /\ NextToStart(r)
    /\ LET totalMB == c.len \div MiB
           hasQuota == CheckStorageQuota(OrganizationID(u), totalMB)
           s == Submitted(r, u, c, n)
       IN reqs' = [reqs EXCEPT ![r] =
                     IF hasQuota
                     THEN [s EXCEPT !.pc = "session"]
                     ELSE [s EXCEPT !.pc = "done", !.status = "quota_exceeded"]]
    /\ UNCHANGED <<files, userFiles, store, putCount, refCount, usedSpaceMB, allocatedMB, lastResp>>
    /\ UNCHANGED <<permVars, rateVars, sessVars, auditVars, orgVars, valVars, reaperVars>>

\* savingsBytes of a dedup hit: the size of the file that was not stored again
SavingsOnHit_Zero(fileSize) == 0
SavingsOnHit(fileSize) == fileSize

\* FileUploadService.UploadFile, step 1 and 2: validation, then the lookup by
\* content hash.  The error of the lookup is not inspected: only a row found
\* makes the request a dedup hit.
UploadFileBegin(r, u, c, n) ==
    /\ \/ NextToStart(r)
       \/ /\ reqs[r].pc = "session"
          /\ u = reqs[r].user /\ c = reqs[r].content /\ n = reqs[r].filename
    /\ LET s == Submitted(r, u, c, n)
           validation == ValidateFile(s.rest)
           existingFile == GetByContentHash(validation.ContentHash)
           v == [s EXCEPT !.rest = validation.rest,
                          !.hash = validation.ContentHash,
                          !.size = validation.FileSize]
       IN reqs' = [reqs EXCEPT ![r] =
                     IF ~validation.IsValid
                     THEN [v EXCEPT !.pc = "done", !.status = "invalid_content"]
                     ELSE IF existingFile # 0
                     THEN [v EXCEPT !.pc = "ref", !.fileId = existingFile,
                                    !.isExisting = TRUE,
                                    !.savingsBytes = SavingsOnHit(validation.FileSize)]
                     ELSE [v EXCEPT !.pc = "put"]]
    /\ UNCHANGED <<files, userFiles, store, putCount, refCount, usedSpaceMB, allocatedMB, lastResp>>
    /\ UNCHANGED <<permVars, rateVars, sessVars, auditVars, orgVars, valVars, reaperVars>>

\* LocalStorageService.UploadFile: os.Create then io.Copy of what is left of
\* the request's reader
StorageUploadFile(r) ==
    /\ reqs[r].pc = "put"
    /\ LET storagePath == generateStoragePath(reqs[r].hash)
           rd == ReadAll(reqs[r].rest)
       IN /\ store' = (storagePath :> rd.data) @@ store
          /\ putCount' = (storagePath :> (IF storagePath \in DOMAIN putCount
                                           THEN putCount[storagePath] + 1 ELSE 1))
                           @@ putCount
          /\ reqs' = [reqs EXCEPT ![r].pc = "create", ![r].rest = rd.rest]
    /\ UNCHANGED <<files, userFiles, refCount, usedSpaceMB, allocatedMB, lastResp>>
    /\ UNCHANGED <<permVars, rateVars, sessVars, auditVars, orgVars, valVars, reaperVars>>

\* the object store reports an error: UploadFile returns it
StorageUploadFails(r) ==
    /\ reqs[r].pc = "put"
    /\ reqs' = [reqs EXCEPT ![r].pc = "done", ![r].status = "storage_error"]
    /\ UNCHANGED <<files, userFiles, store, putCount, refCount, usedSpaceMB, allocatedMB, lastResp>>
    /\ UNCHANGED <<permVars, rateVars, sessVars, auditVars, orgVars, valVars, reaperVars>>

\* UNIQUE (content_hash) on table files
FilesUniqueViolation_NoIndex(contentHash) == FALSE
FilesUniqueViolation(contentHash) ==
    \E i \in FileIds : files[i].contentHash = contentHash

\* update_blob_reference_count, AFTER INSERT ON files
update_blob_reference_count(rc, contentHash) ==
    (contentHash :> (IF contentHash \in DOMAIN rc THEN rc[contentHash] + 1 ELSE 1)) @@ rc

\* FileRepository.Create: INSERT INTO files; a uniqueness violation is
\* returned to the caller as an error
CreateFileRecord(r) ==
    /\ reqs[r].pc = "create"
    /\ IF FilesUniqueViolation(reqs[r].hash)
       THEN /\ reqs' = [reqs EXCEPT ![r].pc = "done", ![r].status = "create_failed"]
            /\ UNCHANGED <<files, refCount>>
       ELSE /\ files' = Append(files,
                           [contentHash |-> reqs[r].hash,
                            fileSize |-> reqs[r].size,
                            storagePath |-> generateStoragePath(reqs[r].hash),
                            ownerId |-> reqs[r].user,
                            primaryGroupId |-> PrimaryGroupID(reqs[r].user),
                            filePermissions |-> DefaultFilePermissions])
            /\ refCount' = update_blob_reference_count(refCount, reqs[r].hash)
            /\ reqs' = [reqs EXCEPT ![r].pc = "ref", ![r].fileId = Len(files) + 1]
    /\ UNCHANGED <<userFiles, store, putCount, usedSpaceMB, allocatedMB, lastResp>>
    /\ UNCHANGED <<permVars, rateVars, sessVars, auditVars, orgVars, valVars, reaperVars>>

\* UNIQUE (user_id, user_filename, folder_path) on table user_files
UserFilesUniqueViolation_NoConstraint(u, n, f) == FALSE
UserFilesUniqueViolation_OtherUsers(u, n, f) ==
    \E i \in UserFileIds :
        /\ userFiles[i].userId # u
        /\ userFiles[i].userFilename = n
        /\ userFiles[i].folderPath = f
UserFilesUniqueViolation(u, n, f) ==
    \E i \in UserFileIds :
        /\ userFiles[i].userId = u
        /\ userFiles[i].userFilename = n
        /\ userFiles[i].folderPath = f

\* FileRepository.CreateUserFile: INSERT INTO user_files, whose AFTER INSERT
\* trigger recomputes the storage statistics of the user's organization;
\* then UploadFile returns its response
CreateUserFile(r) ==
    /\ reqs[r].pc = "ref"
    /\ IF UserFilesUniqueViolation(reqs[r].user, reqs[r].filename, reqs[r].folder)
       THEN /\ reqs' = [reqs EXCEPT ![r].pc = "done", ![r].status = "reference_failed"]
            /\ UNCHANGED <<userFiles, usedSpaceMB>>
       ELSE LET ufs == Append(userFiles,
                         [userId |-> reqs[r].user,
                          fileId |-> reqs[r].fileId,
                          userFilename |-> reqs[r].filename,
                          folderPath |-> reqs[r].folder,
                          isDeleted |-> FALSE])
                org == OrganizationID(reqs[r].user)
            IN /\ userFiles' = ufs
               /\ usedSpaceMB' = [usedSpaceMB EXCEPT ![org] = OrgUsedMB(org, ufs, files)]
               /\ reqs' = [reqs EXCEPT ![r].pc = "done", ![r].status = "ok",
                                       ![r].userFileId = Len(userFiles) + 1]
    /\ UNCHANGED <<files, store, putCount, refCount, allocatedMB, lastResp>>
    /\ UNCHANGED <<permVars, rateVars, sessVars, auditVars, orgVars, valVars, reaperVars>>

\* FileRepository.GetUserFile: the row id, or 0 for record not found
GetUserFile_IgnoresDeleted(u, id) ==
    IF id \in UserFileIds /\ userFiles[id].userId = u THEN id ELSE 0
GetUserFile(u, id) ==
    IF id \in UserFileIds /\ userFiles[id].userId = u /\ ~userFiles[id].isDeleted
    THEN id ELSE 0

\* FileHandler.DeleteFile: GetUserFile, then SoftDeleteUserFile (an UPDATE,
\* on which neither reference-count nor organization trigger fires)
DeleteFile(u, id) ==
    /\ IF GetUserFile(u, id) = 0
       THEN /\ lastResp' = [op |-> "delete", user |-> u, id |-> id, status |-> 404,
                            body |-> EmptyBytes, perm |-> NoPerm]
            /\ UNCHANGED userFiles
       ELSE /\ userFiles' = [userFiles EXCEPT ![id].isDeleted = TRUE]
            /\ lastResp' = [op |-> "delete", user |-> u, id |-> id, status |-> 200,
                            body |-> EmptyBytes, perm |-> NoPerm]
    /\ UNCHANGED <<files, store, putCount, refCount, usedSpaceMB, allocatedMB, reqs>>
    /\ UNCHANGED <<permVars, rateVars, sessVars, auditVars, orgVars, valVars, reaperVars>>

\* FileHandler.DownloadFile: GetUserFile, GetByID, then a JSON description of
\* the file; no byte of the object is streamed to the caller
DownloadStatus(u, id) == IF GetUserFile(u, id) = 0 THEN 404 ELSE 200

DownloadFile(u, id) ==
    /\ lastResp' = [op |-> "download", user |-> u, id |-> id,
                    status |-> DownloadStatus(u, id),
                    body |-> EmptyBytes, perm |-> NoPerm]
    /\ UNCHANGED <<files, userFiles, store, putCount, refCount, usedSpaceMB, allocatedMB, reqs>>
    /\ UNCHANGED <<permVars, rateVars, sessVars, auditVars, orgVars, valVars, reaperVars>>

\* FileHandler.GetFileMetadata: GetUserFile, GetByID, then the metadata with
\* the permissions ParseLinuxPermissions computes for the caller, who is given
\* no group (the group ids of the user are not loaded)
MetadataStatus(u, id) ==
    IF GetUserFile(u, id) = 0 THEN 404
    ELSE IF userFiles[id].userId # u THEN 403
    ELSE 200

MetadataPermissions(u, id) ==
    IF MetadataStatus(u, id) # 200 THEN NoPerm
    ELSE LET file == files[userFiles[id].fileId]
         IN ParseLinuxPermissions(file.filePermissions, u, file.ownerId,
                                  file.primaryGroupId, <<>>)

GetFileMetadata(u, id) ==
    /\ lastResp' = [op |-> "metadata", user |-> u, id |-> id,
                    status |-> MetadataStatus(u, id),
                    body |-> EmptyBytes, perm |-> MetadataPermissions(u, id)]
    /\ UNCHANGED <<files, userFiles, store, putCount, refCount, usedSpaceMB, allocatedMB, reqs>>
    /\ UNCHANGED <<permVars, rateVars, sessVars, auditVars, orgVars, valVars, reaperVars>>

Next ==
    \/ \E u \in Users, id \in 1..(Len(userFiles) + 1) : GetFileMetadata(u, id)
    \/ \E r \in ReqIds, u \in Users, c \in Contents, n \in Filenames :
          CreateUploadSession(r, u, c, n)
    \/ \E r \in ReqIds, u \in Users, c \in Contents, n \in Filenames :
          UploadFileBegin(r, u, c, n)
    \/ \E r \in ReqIds : StorageUploadFile(r)
    \/ \E r \in ReqIds : StorageUploadFails(r)
    \/ \E r \in ReqIds : CreateFileRecord(r)
    \/ \E r \in ReqIds : CreateUserFile(r)
    \/ \E u \in Users, id \in 1..(Len(userFiles) + 1) : DeleteFile(u, id)
    \/ \E u \in Users, id \in 1..(Len(userFiles) + 1) : DownloadFile(u, id)

Spec == Init /\ [][Next]_vars

\* ----------------------------------------------- the permission resolvers
\* The two functions that compute effective permissions, applied to inputs
\* drawn from bounded sets: permissions written with the digits 0, 4, 6, 7.

PermDigits == {0, 4, 6, 7}
Masks == { 100 * o + 10 * g + x : o \in PermDigits, g \in PermDigits, x \in PermDigits }

\* the lists of groups of the user's organization a user may belong to
GroupLists(u) ==
    IF OrganizationID(u) = "o2"
    THEN { <<>>, <<"o2.users">>, <<"o2.admin">>, <<"o2.admin", "o2.users">> }
    ELSE { <<>>, <<"o1.users">>, <<"o1.admin">>, <<"o1.admin", "o1.users">> }

\* the groups a file of this owner may have as primary group
PrimaryGroups(owner) ==
    { g \in Groups : GroupOrganizationID(g) = OrganizationID(owner) } \cup {Nil}

OverrideGroups == {"o1.admin", "o1.users"}
OverrideMasks == {620, 640}

\* FileRepository.SetFileGroupPermission: INSERT INTO file_group_permissions,
\* UNIQUE (file_id, group_id)
SetFileGroupPermission(g, m) ==
    /\ g \notin DOMAIN fileGroupPermissions
    /\ fileGroupPermissions' = (g :> m) @@ fileGroupPermissions
    /\ UNCHANGED <<permCheck, fileVars, rateVars, sessVars, auditVars, orgVars, valVars, reaperVars>>

\* one resolution of the effective permissions of a user on a file, by
\* calculateUserFilePermissions (file listing) and by ParseLinuxPermissions
\* (file metadata); neither reads table file_group_permissions.  A behaviour
\* resolves one request.
ResolvePermissions(userID, userGroupIDs, fileOwnerID, filePrimaryGroupID, filePermissions) ==
    /\ ~permCheck.resolved
    /\ permCheck' =
         [resolved |-> TRUE, userID |-> userID, userGroupIDs |-> userGroupIDs,
          fileOwnerID |-> fileOwnerID, filePrimaryGroupID |-> filePrimaryGroupID,
          filePermissions |-> filePermissions,
          calculated |-> calculateUserFilePermissions(userID, userGroupIDs, fileOwnerID,
                                                      filePrimaryGroupID, filePermissions),
          parsed |-> ParseLinuxPermissions(filePermissions, userID, fileOwnerID,
                                           filePrimaryGroupID, userGroupIDs)]
    /\ UNCHANGED <<fileGroupPermissions, fileVars, rateVars, sessVars, auditVars, orgVars, valVars, reaperVars>>

PermNext ==
    \/ \E g \in OverrideGroups, m \in OverrideMasks : SetFileGroupPermission(g, m)
    \/ \E u \in Users, owner \in Users, mask \in Masks :
         \E ugs \in GroupLists(u), pg \in PrimaryGroups(owner) :
            ResolvePermissions(u, ugs, owner, pg, mask)

PermSpec == Init /\ [][PermNext]_vars

\* -------------------------------------------------------- the rate limiter
\* Time advances in ticks.  Token amounts are counted in units of
\* 1/TicksPerSecond token, so that a limiter of r tokens per second gains r
\* units per tick.

TokenUnit == TicksPerSecond

\* NewRateLimiter: the limits of user and organization buckets
NewRateLimiter ==
    [userRPS |-> RateLimitRPS, userBurst |-> RateLimitBurst,
     orgRPS |-> RateLimitRPS * 10, orgBurst |-> RateLimitBurst * 10]

\* rate.NewLimiter(r, b): a bucket of capacity b that starts full
NewLimiter(r, b, t) == [limit |-> r, burst |-> b, tokens |-> b * TokenUnit, last |-> t]

\* the tokens of a limiter at time t: refilled since its last update, capped
\* at the burst
Tokens(lim, t) ==
    LET refilled == lim.tokens + (t - lim.last) * lim.limit
    IN IF refilled > lim.burst * TokenUnit THEN lim.burst * TokenUnit ELSE refilled

\* Limiter.Allow at time t: takes one token if there is one
Allow(lim, t) ==
    IF Tokens(lim, t) >= TokenUnit
    THEN [ok |-> TRUE, limiter |-> [lim EXCEPT !.tokens = Tokens(lim, t) - TokenUnit,
                                               !.last = t]]
    ELSE [ok |-> FALSE, limiter |-> [lim EXCEPT !.tokens = Tokens(lim, t), !.last = t]]

\* RateLimiter.GetUserLimiter: the bucket of the user, created on first use
GetUserLimiter(buckets, userID, t) ==
    IF userID \in DOMAIN buckets
    THEN buckets[userID]
    ELSE NewLimiter(NewRateLimiter.userRPS, NewRateLimiter.userBurst, t)

\* the handlers gin runs, in order, for a route of group protected:
\* api.Use(RateLimitMiddleware), then protected.Use(authMiddleware),
\* protected.Use(CSRFProtection), then the route's handler
ProtectedChain == <<"RateLimitMiddleware", "authMiddleware", "CSRFProtection", "handler">>

\* c.Get("userID") inside the named handler of the chain: authMiddleware is
\* what sets the key, so it is there only for handlers that run after it
ContextUserID(chain, handler, u) ==
    IF \E i, j \in 1..Len(chain) :
          i < j /\ chain[i] = "authMiddleware" /\ chain[j] = handler
    THEN u ELSE Nil

\* RateLimiter.RateLimitMiddleware: a request that carries no userID passes;
\* otherwise the user's limiter decides.  No organization bucket is read.
RateLimitMiddleware(ctxUserID, buckets, t) ==
    IF ctxUserID = Nil
    THEN [admitted |-> TRUE, userBuckets |-> buckets]
    ELSE LET res == Allow(GetUserLimiter(buckets, ctxUserID, t), t)
         IN [admitted |-> res.ok,
             userBuckets |-> (ctxUserID :> res.limiter) @@ buckets]

\* one request of an authenticated user to a protected route of /api/v1
ApiRequest(u) ==
    /\ apiLog[u].admitted + apiLog[u].refused < MaxCalls
    /\ LET ctxUserID == ContextUserID(ProtectedChain, "RateLimitMiddleware", u)
           res == RateLimitMiddleware(ctxUserID, userBuckets, now)
           first == IF apiLog[u].admitted + apiLog[u].refused = 0
                    THEN now ELSE apiLog[u].firstAt
       IN /\ userBuckets' = res.userBuckets
          /\ apiLog' = [apiLog EXCEPT ![u] =
                          [firstAt |-> first,
                           admitted |-> @.admitted + (IF res.admitted THEN 1 ELSE 0),
                           refused |-> @.refused + (IF res.admitted THEN 0 ELSE 1)]]
    /\ UNCHANGED <<now, orgBuckets, fileVars, permVars, sessVars, auditVars, orgVars, valVars, reaperVars>>

\* time passes
Tick ==
    /\ now < MaxTime
    /\ now' = now + 1
    /\ UNCHANGED <<userBuckets, orgBuckets, apiLog, fileVars, permVars, sessVars, auditVars, orgVars, valVars, reaperVars>>

RateNext ==
    \/ \E u \in Users : ApiRequest(u)
    \/ Tick

RateSpec == Init /\ [][RateNext]_vars

\* ------------------------------------------------------ upload sessions
\* models.UploadStatus*
UploadStatusPending == "pending"
UploadStatusInProgress == "in_progress"
UploadStatusCompleted == "completed"
UploadStatusFailed == "failed"

\* FileRepository.CreateUploadSession: INSERT INTO upload_sessions with status
\* pending.  No handler or service calls it.
RepositoryCreateUploadSession(rows, userID, sessionToken) ==
    Append(rows, [userId |-> userID, sessionToken |-> sessionToken,
                  status |-> UploadStatusPending, uploadedBytes |-> 0,
                  completedAt |-> Nil])

\* FileRepository.GetUploadSession: the row id, or 0 for record not found
GetUploadSession(sessionToken) ==
    IF \E i \in 1..Len(uploadSessions) : uploadSessions[i].sessionToken = sessionToken
    THEN CHOOSE i \in 1..Len(uploadSessions) : uploadSessions[i].sessionToken = sessionToken
    ELSE 0

\* FileRepository.UpdateUploadSessionProgress: UPDATE ... WHERE id = ?, whatever
\* the status of the row.  No handler or service calls it.
UpdateUploadSessionProgress(rows, sessionID, uploadedBytes, status, t) ==
    [rows EXCEPT ![sessionID] =
        [@ EXCEPT !.uploadedBytes = uploadedBytes,
                  !.status = status,
                  !.completedAt = IF status \in {UploadStatusCompleted, UploadStatusFailed}
                                  THEN t ELSE @]]

Issued(tok) == tok \in 1..Len(sessionOwner)

\* total sizes a client declares for a batch
SessionTotals == {7, 2097152}

\* FileHandler.CreateUploadSession with FileUploadService.CreateUploadSession:
\* the quota check, then a token from uuid.New() is returned.  The session
\* the service builds (Status "active") is a local value that is dropped:
\* nothing is inserted into upload_sessions.
CreateSession(u, totalBytes) ==
    /\ Len(sessionOwner) < MaxSessions
    /\ LET totalMB == totalBytes \div MiB
           hasQuota == CheckStorageQuota(OrganizationID(u), totalMB)
           sessionToken == Len(sessionOwner) + 1
       IN IF hasQuota
          THEN /\ sessionOwner' = Append(sessionOwner, u)
               /\ sessResp' = [op |-> "create", user |-> u, token |-> sessionToken,
                               code |-> 201, status |-> "none"]
          ELSE /\ sessResp' = [op |-> "create", user |-> u, token |-> 0,
                               code |-> 402, status |-> "none"]
               /\ UNCHANGED sessionOwner
    /\ UNCHANGED <<uploadSessions, sessionLog>>
    /\ UNCHANGED <<fileVars, permVars, rateVars, auditVars, orgVars, valVars, reaperVars>>

\* FileHandler.UploadFile as the session sees it: the token of the path is
\* parsed as a UUID and handed to FileUploadService.UploadFile, which never
\* reads it; whether the ingest succeeds or fails, no session row is looked
\* up or updated.  (The ingest itself is the subject of Spec.)
SessionUploadFile(u, tok, ok) ==
    /\ sessionLog' = [sessionLog EXCEPT ![tok].attempted = TRUE]
    /\ sessResp' = [op |-> "upload", user |-> u, token |-> tok,
                    code |-> IF ok THEN 200 ELSE 500, status |-> "none"]
    /\ UNCHANGED <<uploadSessions, sessionOwner>>
    /\ UNCHANGED <<fileVars, permVars, rateVars, auditVars, orgVars, valVars, reaperVars>>

\* FileHandler.CompleteUploadSession with
\* FileUploadService.CompleteUploadSession, which returns nil
CompleteUploadSession(u, tok) ==
    /\ sessionLog[tok].completes < MaxCompletes
    /\ sessionLog' = [sessionLog EXCEPT ![tok].completes = @ + 1]
    /\ sessResp' = [op |-> "complete", user |-> u, token |-> tok,
                    code |-> 200, status |-> "none"]
    /\ UNCHANGED <<uploadSessions, sessionOwner>>
    /\ UNCHANGED <<fileVars, permVars, rateVars, auditVars, orgVars, valVars, reaperVars>>

\* FileHandler.GetUploadProgress with FileUploadService.GetUploadProgress,
\* which returns a fixed answer for every token and every user
GetUploadProgress(u, tok) ==
    /\ sessResp' = [op |-> "progress", user |-> u, token |-> tok,
                    code |-> 200, status |-> "completed"]
    /\ UNCHANGED <<uploadSessions, sessionOwner, sessionLog>>
    /\ UNCHANGED <<fileVars, permVars, rateVars, auditVars, orgVars, valVars, reaperVars>>

SessionNext ==
    \/ \E u \in Users, b \in SessionTotals : CreateSession(u, b)
    \/ \E u \in Users, tok \in TokenIds, ok \in BOOLEAN : SessionUploadFile(u, tok, ok)
    \/ \E u \in Users, tok \in TokenIds : CompleteUploadSession(u, tok)
    \/ \E u \in Users, tok \in TokenIds : GetUploadProgress(u, tok)

SessionSpec == Init /\ [][SessionNext]_vars

\* ------------------------------------------------------------ audit trail
\* c.Request.URL.Path is modelled by its segments; PathText gives the text
RECURSIVE PathText(_)
PathText(path) ==
    IF path = <<>> THEN "" ELSE "/" \o Head(path) \o PathText(Tail(path))

\* strings.ToLower on an HTTP method
ToLower(method) ==
    CASE method = "GET" -> "get"
      [] method = "POST" -> "post"
      [] method = "DELETE" -> "delete"
      [] OTHER -> method

\* strings.Contains(c.Request.URL.Path, "/files/"): a segment "files" that
\* is followed by another segment
ContainsFiles(path) == \E i \in 1..(Len(path) - 1) : path[i] = "files"

\* AuditMiddleware: the action name of a request
AuditAction(method, path) ==
    IF ContainsFiles(path) /\ method = "POST" THEN "file_upload"
    ELSE IF ContainsFiles(path) /\ method = "GET" THEN "file_download"
    ELSE IF ContainsFiles(path) /\ method = "DELETE" THEN "file_delete"
    ELSE "http_" \o ToLower(method) \o "_" \o PathText(path)

\* AuditMiddleware: the event built from a gin.Context; ResourceID is not set
AuditEvent(c) ==
    [userID |-> c.userID,
     action |-> AuditAction(c.method, c.path),
     resourceType |-> "http_request",
     resourceID |-> Nil,
     status |-> IF c.code >= 400 THEN "failure" ELSE "success",
     details |-> [method |-> c.method, path |-> c.path, status_code |-> c.code]]

\* ids of references and session tokens that requests name
AuditResources == {"f1", "f2"}

\* the requests of the model: what the route, the authentication and the
\* handler make of them (user put in the context, resource affected, status)
AuditRequests ==
    { [method |-> "POST", path |-> <<"api", "v1", "files", "upload", "f2">>,
       userID |-> u, op |-> "ingest", resource |-> res, code |-> 200] :
         u \in Users, res \in AuditResources }
    \cup
    { [method |-> "POST", path |-> <<"api", "v1", "files", "upload", "f2">>,
       userID |-> u, op |-> "ingest", resource |-> Nil, code |-> 500] : u \in Users }
    \cup
    { [method |-> "DELETE", path |-> <<"api", "v1", "files", res>>,
       userID |-> u, op |-> "delete", resource |-> res, code |-> code] :
         u \in Users, res \in AuditResources, code \in {200, 404} }
    \cup
    { [method |-> "POST",
       path |-> <<"api", "v1", "files", "upload-session", res, "complete">>,
       userID |-> u, op |-> "complete", resource |-> res, code |-> 200] :
         u \in Users, res \in AuditResources }
    \cup
    { [method |-> "POST", path |-> <<"api", "v1", "auth", "login">>,
       userID |-> Nil, op |-> "login", resource |-> Nil, code |-> code] :
         code \in {200, 401} }
    \cup
    { [method |-> "GET", path |-> <<"api", "v1", "files">>,
       userID |-> u, op |-> "list", resource |-> Nil, code |-> 200] : u \in Users }
    \cup
    { [method |-> "GET", path |-> <<"health">>,
       userID |-> Nil, op |-> "health", resource |-> Nil, code |-> 200] }

\* AuditMiddleware around a request: /health and /metrics are passed on
\* unaudited; for every other request the handlers run (c.Next()) and then a
\* goroutine is started that will log the request
ServeRequest(q) ==
    /\ Len(auditLogs) + Len(auditPending) < MaxAuditRequests
    /\ ginContext' = q
    /\ IF q.path = <<"health">> \/ q.path = <<"metrics">>
       THEN UNCHANGED auditPending
       ELSE auditPending' = Append(auditPending, q)
    /\ UNCHANGED auditLogs
    /\ UNCHANGED <<fileVars, permVars, rateVars, sessVars, orgVars, valVars, reaperVars>>

\* the goroutine of AuditMiddleware with LogEvent (INSERT INTO audit_logs).
\* It reads the gin.Context after the handler chain has returned it to the
\* pool of the engine: it finds either its own request or the request that
\* has filled the context since.
AuditGoroutine(i, c) ==
    /\ i \in 1..Len(auditPending)
    /\ c \in {auditPending[i], ginContext}
    /\ auditLogs' = Append(auditLogs, AuditEvent(c))
    /\ auditPending' = [j \in 1..(Len(auditPending) - 1) |->
                           IF j < i THEN auditPending[j] ELSE auditPending[j + 1]]
    /\ UNCHANGED ginContext
    /\ UNCHANGED <<fileVars, permVars, rateVars, sessVars, orgVars, valVars, reaperVars>>

AuditNext ==
    \/ \E q \in AuditRequests : ServeRequest(q)
    \/ \E i \in 1..MaxAuditRequests, c \in AuditRequests : AuditGoroutine(i, c)

AuditSpec == Init /\ [][AuditNext]_vars

\* every goroutine started is eventually run by the Go scheduler
AuditLiveSpec ==
    Init /\ [][AuditNext]_vars
         /\ WF_vars(\E i \in 1..MaxAuditRequests, c \in AuditRequests : AuditGoroutine(i, c))

\* -------------------------------------------------- organization creation
\* The server creates its tables with AutoMigrate; the groups tables'
\* triggers exist only in a database to which SQL migration 003 was applied
\* as well.  migration003 tells whether that has been done.
OrgNames == {"acme", "beta"}

\* models.RoleAdmin
RoleAdmin == "ADMIN"

\* UNIQUE (name) on table organizations
OrganizationNameViolation(db, name) == \E o \in db.organizations : o.name = name

\* UNIQUE (organization_id) on table organization_storage_stats
StatsUniqueViolation(db, orgID) == \E st \in db.stats : st.organizationId = orgID

\* create_default_groups_for_organization, AFTER INSERT ON organizations
create_default_groups_for_organization(db, orgID) ==
    [db EXCEPT
       !.groups = @ \cup
          { [organizationId |-> orgID, name |-> "admin", permissions |-> 777,
             isSystemGroup |-> TRUE],
            [organizationId |-> orgID, name |-> "users", permissions |-> 664,
             isSystemGroup |-> TRUE],
            [organizationId |-> orgID, name |-> "guests", permissions |-> 444,
             isSystemGroup |-> TRUE] },
       !.stats = @ \cup {[organizationId |-> orgID, by |-> "trigger"]}]

\* assign_creator_to_admin_group, AFTER INSERT ON user_organizations:
\* the membership is inserted IF NEW.role = 'admin' and the admin group exists
assign_creator_to_admin_group(db, row) ==
    LET adminGroups == {g \in db.groups : /\ g.organizationId = row.organizationId
                                         /\ g.name = "admin" /\ g.isSystemGroup}
    IN IF row.role = "admin" /\ adminGroups # {}
       THEN [db EXCEPT !.userGroups = @ \cup
               {[userId |-> row.userId, organizationId |-> row.organizationId,
                 group |-> "admin"]}]
       ELSE db

\* the operator applies SQL migration 003 to the database
ApplyMigration003 ==
    /\ ~migration003
    /\ orgTx.pc = "idle"
    /\ migration003' = TRUE
    /\ UNCHANGED <<orgDb, orgTx, orgAttempts, orgResult>>
    /\ UNCHANGED <<fileVars, permVars, rateVars, sessVars, auditVars, valVars, reaperVars>>

\* OrganizationRepository.Create: tx := db.Begin()
OrgBegin(creator, name) ==
    /\ orgTx.pc = "idle"
    /\ orgAttempts < MaxOrgAttempts
    /\ orgAttempts' = orgAttempts + 1
    /\ orgTx' = [pc |-> "org", creator |-> creator, name |-> name,
                 id |-> orgAttempts + 1, db |-> orgDb]
    /\ UNCHANGED <<migration003, orgDb, orgResult>>
    /\ UNCHANGED <<fileVars, permVars, rateVars, sessVars, auditVars, valVars, reaperVars>>

\* tx.Rollback() and the error returned
OrgRolledBack == /\ orgTx' = NoTx
                 /\ orgResult' = [creator |-> orgTx.creator, id |-> orgTx.id,
                                  status |-> "failed"]
                 /\ UNCHANGED orgDb

\* tx.Create(org)
OrgInsertOrganization ==
    /\ orgTx.pc = "org"
    /\ IF OrganizationNameViolation(orgTx.db, orgTx.name)
       THEN OrgRolledBack
       ELSE LET d1 == [orgTx.db EXCEPT !.organizations = @ \cup
                          {[id |-> orgTx.id, name |-> orgTx.name,
                            createdByUserId |-> orgTx.creator]}]
                d2 == IF migration003
                      THEN create_default_groups_for_organization(d1, orgTx.id)
                      ELSE d1
            IN /\ orgTx' = [orgTx EXCEPT !.pc = "userOrg", !.db = d2]
               /\ UNCHANGED <<orgDb, orgResult>>
    /\ UNCHANGED <<migration003, orgAttempts>>
    /\ UNCHANGED <<fileVars, permVars, rateVars, sessVars, auditVars, valVars, reaperVars>>

\* tx.Create(userOrg) with Role: models.RoleAdmin
OrgInsertUserOrganization ==
    /\ orgTx.pc = "userOrg"
    /\ LET row == [userId |-> orgTx.creator, organizationId |-> orgTx.id,
                   role |-> RoleAdmin]
           d1 == [orgTx.db EXCEPT !.userOrganizations = @ \cup {row}]
           d2 == IF migration003 THEN assign_creator_to_admin_group(d1, row) ELSE d1
       IN orgTx' = [orgTx EXCEPT !.pc = "user", !.db = d2]
    /\ UNCHANGED <<migration003, orgDb, orgAttempts, orgResult>>
    /\ UNCHANGED <<fileVars, permVars, rateVars, sessVars, auditVars, valVars, reaperVars>>

\* tx.Model(&models.User{}).Where("id = ?", creatorUserID).Update("organization_id", org.ID)
OrgUpdateUser ==
    /\ orgTx.pc = "user"
    /\ orgTx' = [orgTx EXCEPT !.pc = "stats",
                              !.db.userOrganizationId = (orgTx.creator :> orgTx.id) @@ @]
    /\ UNCHANGED <<migration003, orgDb, orgAttempts, orgResult>>
    /\ UNCHANGED <<fileVars, permVars, rateVars, sessVars, auditVars, valVars, reaperVars>>

\* tx.Create(storageStats)
OrgInsertStats ==
    /\ orgTx.pc = "stats"
    /\ IF StatsUniqueViolation(orgTx.db, orgTx.id)
       THEN OrgRolledBack
       ELSE /\ orgTx' = [orgTx EXCEPT !.pc = "commit",
                                      !.db.stats = @ \cup {[organizationId |-> orgTx.id,
                                                            by |-> "Create"]}]
            /\ UNCHANGED <<orgDb, orgResult>>
    /\ UNCHANGED <<migration003, orgAttempts>>
    /\ UNCHANGED <<fileVars, permVars, rateVars, sessVars, auditVars, valVars, reaperVars>>

\* tx.Commit()
OrgCommit ==
    /\ orgTx.pc = "commit"
    /\ orgDb' = orgTx.db
    /\ orgTx' = NoTx
    /\ orgResult' = [creator |-> orgTx.creator, id |-> orgTx.id, status |-> "ok"]
    /\ UNCHANGED <<migration003, orgAttempts>>
    /\ UNCHANGED <<fileVars, permVars, rateVars, sessVars, auditVars, valVars, reaperVars>>

\* a statement or the commit fails (connection lost, context cancelled):
\* the transaction is rolled back
OrgStatementFails ==
    /\ orgTx.pc # "idle"
    /\ OrgRolledBack
    /\ UNCHANGED <<migration003, orgAttempts>>
    /\ UNCHANGED <<fileVars, permVars, rateVars, sessVars, auditVars, valVars, reaperVars>>

OrgNext ==
    \/ ApplyMigration003
    \/ \E u \in Users, n \in OrgNames : OrgBegin(u, n)
    \/ OrgInsertOrganization
    \/ OrgInsertUserOrganization
    \/ OrgUpdateUser
    \/ OrgInsertStats
    \/ OrgCommit
    \/ OrgStatementFails

OrgSpec == Init /\ [][OrgNext]_vars

\* ------------------------------------------------------- file validation
\* A filename is the sequence of its characters (one byte each); "NUL" stands
\* for the byte 0.  A size is given by its whole MiB and the bytes beyond
\* them, so that sizes around MaxFileSize (100 GiB) can be written.
Chars(n, ch) == [i \in 1..n |-> ch]

\* strings.Contains
Contains(str, sub) ==
    \E i \in 1..(Len(str) - Len(sub) + 1) : SubSeq(str, i, i + Len(sub) - 1) = sub

\* strings.TrimSpace(filename) == ""
TrimSpaceIsEmpty(str) == \A i \in 1..Len(str) : str[i] \in {" ", "\t", "\n", "\r"}

\* validateFilename: dangerousChars
dangerousChars ==
    { <<".", ".", "/">>, <<".", ".", "\\">>, <<"<">>, <<">">>, <<":">>, <<"\"">>,
      <<"|">>, <<"?">>, <<"*">> }

\* len(filename) > 255
MaxFilenameLength == 255

\* validateFilename: whether the filename leaves the result valid
validateFilename(filename) ==
    IF TrimSpaceIsEmpty(filename) THEN FALSE
    ELSE /\ \A d \in dangerousChars : ~Contains(filename, d)
         /\ ~(Len(filename) > MaxFilenameLength)
         /\ ~Contains(filename, <<"NUL">>)

\* validateFileSize on a size of mib MiB and rem bytes (rem < MiB)
validateFileSizeLimbs_MaxExcluded(mib, rem) ==
    /\ ~(mib = 0 /\ rem = 0)
    /\ ~(mib >= MaxFileSizeMiB)
validateFileSizeLimbs(mib, rem) ==
    /\ ~(mib = 0 /\ rem = 0)
    /\ ~(\/ mib > MaxFileSizeMiB
         \/ (mib = MaxFileSizeMiB /\ rem > 0))

\* ValidateFile for a file whose content, extension and MIME type raise no
\* objection: the size check and the filename check decide
ValidateFileNamed(filename, mib, rem) ==
    [IsValid |-> validateFileSizeLimbs(mib, rem) /\ validateFilename(filename),
     Warnings |-> {}]

\* what the ClamAV daemon does with the stream
ScannerOutcomes == {"FOUND", "OK", "other", "unreachable"}

\* scanForViruses: the connection fails (an error is returned), or the
\* response is parsed: FOUND -> infected, OK -> clean, anything else -> error
\* status on a result that is still clean
scanForViruses(enabled, scanner) ==
    IF ~enabled THEN [err |-> FALSE, Clean |-> TRUE, Status |-> "disabled"]
    ELSE IF scanner = "unreachable" THEN [err |-> TRUE, Clean |-> TRUE, Status |-> "error"]
    ELSE IF scanner = "FOUND" THEN [err |-> FALSE, Clean |-> FALSE, Status |-> "infected"]
    ELSE IF scanner = "OK" THEN [err |-> FALSE, Clean |-> TRUE, Status |-> "clean"]
    ELSE [err |-> FALSE, Clean |-> TRUE, Status |-> "error"]

\* the warning ValidateFileWithVirusScan appends when the scan returns an error
ScanWarning_None == {}
ScanWarning == {"Virus scan could not be completed"}

\* ValidateFileWithVirusScan: ValidateFile, then the scan if scanning is
\* enabled and the file is valid so far
ValidateFileWithVirusScan(filename, mib, rem, enabled, scanner) ==
    LET result == ValidateFileNamed(filename, mib, rem)
        scan == scanForViruses(enabled, scanner)
    IN IF enabled /\ result.IsValid
       THEN IF scan.err
            THEN [result EXCEPT !.Warnings = @ \cup ScanWarning]
            ELSE IF ~scan.Clean THEN [result EXCEPT !.IsValid = FALSE]
            ELSE result
       ELSE result

\* the filenames of the multipart header, and the values of the form field
\* userFilename (<<>>: the field is absent)
HeaderFilenames ==
    { <<"a", ".", "p", "d", "f">>, <<>>, <<" ">>,
      <<".", ".", "/", "e">>, <<".", ".", "\\", "e", "v", "i", "l">>,
      <<"a", "NUL">>, Chars(255, "a"), Chars(256, "a") }
    \cup { <<"a", ch>> : ch \in {"<", ">", ":", "\"", "|", "?", "*"} }

UserFilenameFields ==
    { <<>>, <<"b", ".", "p", "d", "f">>, <<".", ".", "\\", "e", "v", "i", "l">>,
      Chars(256, "b") }

\* sizes: empty, one byte, MaxFileSize - 1, MaxFileSize, MaxFileSize + 1
UploadSizes ==
    { <<0, 0>>, <<0, 1>>, <<MaxFileSizeMiB - 1, MiB - 1>>, <<MaxFileSizeMiB, 0>>,
      <<MaxFileSizeMiB, 1>> }

\* FileHandler.UploadFile and FileUploadService.UploadFile, as far as names
\* and validation go: the user-visible name is the form field userFilename
\* or, when that is empty, the filename of the multipart header;
\* ValidateFile is called with the header's filename; an invalid result ends
\* the upload, a valid one lets it proceed to the object and the reference,
\* which is stored under the user-visible name.  (What follows validation is
\* the subject of Spec.)  ValidateFileWithVirusScan is not called by
\* UploadFile; its answer for the same upload is recorded beside.
ValidateUpload(headerFilename, userFilenameField, size, enabled, scanner) ==
    /\ ~lastValidation.done
    /\ LET userFilename == IF userFilenameField = <<>> THEN headerFilename
                           ELSE userFilenameField
           result == ValidateFileNamed(headerFilename, size[1], size[2])
       IN lastValidation' =
            [done |-> TRUE,
             filename |-> headerFilename,
             userFilename |-> userFilename,
             size |-> size,
             enabled |-> enabled,
             scanner |-> scanner,
             result |-> result,
             withVirusScan |-> ValidateFileWithVirusScan(headerFilename, size[1], size[2],
                                                         enabled, scanner),
             rejected |-> ~result.IsValid,
             reference |-> IF result.IsValid THEN <<userFilename>> ELSE <<>>]
    /\ UNCHANGED <<fileVars, permVars, rateVars, sessVars, auditVars, orgVars, reaperVars>>

ValidateNext ==
    \E h \in HeaderFilenames, f \in UserFilenameFields, size \in UploadSizes,
       enabled \in BOOLEAN, scanner \in ScannerOutcomes :
          ValidateUpload(h, f, size, enabled, scanner)

ValidateSpec == Init /\ [][ValidateNext]_vars

\* --------------------------------------------------- rate limiter cleanup
\* The RateLimiter as its cleanup sees it: each bucket is its lastAccess, the
\* clock counts minutes.  The clock is observed at every tick of the cleanup
\* ticker and one minute after it; GetUserLimiter and GetOrgLimiter are
\* called by whoever holds the RateLimiter.
MaxMinutes == 41

\* NewRateLimiter: cleanupInterval and maxIdleTime, in minutes
cleanupInterval == 5
maxIdleTime == 30

ReaperUsers == {"u1", "u2"}
ReaperOrgs == {"o1"}

\* GetUserLimiter / GetOrgLimiter on one of the maps: the bucket is created
\* with lastAccess = now, or its lastAccess is set to now
TouchBucket(buckets, id, t) == (id :> t) @@ buckets

\* cleanup: now.Sub(bucket.lastAccess) > rl.maxIdleTime
Expired_AtMaxIdle(lastAccess, t) == t - lastAccess >= maxIdleTime
Expired(lastAccess, t) == t - lastAccess > maxIdleTime

\* cleanup on one of the maps: the expired entries are deleted
cleanup(buckets, t) ==
    [id \in { i \in DOMAIN buckets : ~Expired(buckets[i], t) } |-> buckets[id]]

\* the ticker has fired and cleanup has not yet run for this tick
CleanupDue ==
    /\ idleBuckets.now > 0
    /\ idleBuckets.now % cleanupInterval = 0
    /\ idleBuckets.lastCleanup < idleBuckets.now

ReaperGetUserLimiter(u) ==
    /\ idleBuckets' = [idleBuckets EXCEPT
                         !.userBuckets = TouchBucket(@, u, idleBuckets.now)]
    /\ UNCHANGED <<fileVars, permVars, rateVars, sessVars, auditVars, orgVars, valVars>>

ReaperGetOrgLimiter(o) ==
    /\ idleBuckets' = [idleBuckets EXCEPT
                         !.orgBuckets = TouchBucket(@, o, idleBuckets.now)]
    /\ UNCHANGED <<fileVars, permVars, rateVars, sessVars, auditVars, orgVars, valVars>>

\* cleanupRoutine: one tick of the ticker, one run of cleanup
ReaperCleanup ==
    /\ CleanupDue
    /\ LET t == idleBuckets.now
           users == cleanup(idleBuckets.userBuckets, t)
           orgs == cleanup(idleBuckets.orgBuckets, t)
       IN idleBuckets' =
            [idleBuckets EXCEPT
               !.lastCleanup = t,
               !.userBuckets = users,
               !.orgBuckets = orgs,
               !.removed = (DOMAIN idleBuckets.userBuckets \ DOMAIN users)
                             \cup (DOMAIN idleBuckets.orgBuckets \ DOMAIN orgs)]
    /\ UNCHANGED <<fileVars, permVars, rateVars, sessVars, auditVars, orgVars, valVars>>

\* time passes, up to the next instant observed; a tick is not skipped
ReaperAdvance(d) ==
    /\ ~CleanupDue
    /\ idleBuckets.now + d <= MaxMinutes
    /\ (idleBuckets.now + d) % cleanupInterval \in {0, 1}
    /\ idleBuckets' = [idleBuckets EXCEPT !.now = @ + d]
    /\ UNCHANGED <<fileVars, permVars, rateVars, sessVars, auditVars, orgVars, valVars>>

ReaperNext ==
    \/ \E u \in ReaperUsers : ReaperGetUserLimiter(u)
    \/ \E o \in ReaperOrgs : ReaperGetOrgLimiter(o)
    \/ ReaperCleanup
    \/ \E d \in {1, cleanupInterval - 1} : ReaperAdvance(d)

ReaperSpec == Init /\ [][ReaperNext]_vars

\* ------------------------------------------------ a failing hash lookup
\* FileUploadService.UploadFile when GetByContentHash fails for a reason
\* other than 'record not found' (connection lost, context cancelled):
\* the repository returns (nil, err); UploadFile does not look at err, finds
\* existingFile == nil and takes the branch of a new file.
UploadFileLookupFails(r, u, c, n) ==
    /\ NextToStart(r)
    /\ LET s == Submitted(r, u, c, n)
           validation == ValidateFile(s.rest)
           v == [s EXCEPT !.rest = validation.rest,
                          !.hash = validation.ContentHash,
                          !.size = validation.FileSize]
       IN reqs' = [reqs EXCEPT ![r] =
                     IF ~validation.IsValid
                     THEN [v EXCEPT !.pc = "done", !.status = "invalid_content"]
                     ELSE [v EXCEPT !.pc = "put", !.lookupErr = TRUE]]
    /\ UNCHANGED <<files, userFiles, store, putCount, refCount, usedSpaceMB, allocatedMB, lastResp>>
    /\ UNCHANGED <<permVars, rateVars, sessVars, auditVars, orgVars, valVars, reaperVars>>

\* uploads, each of whose lookups may fail
FaultNext ==
    \/ \E r \in ReqIds, u \in Users, c \in Contents, n \in Filenames :
          UploadFileBegin(r, u, c, n)
    \/ \E r \in ReqIds, u \in Users, c \in Contents, n \in Filenames :
          UploadFileLookupFails(r, u, c, n)
    \/ \E r \in ReqIds : StorageUploadFile(r)
    \/ \E r \in ReqIds : StorageUploadFails(r)
    \/ \E r \in ReqIds : CreateFileRecord(r)
    \/ \E r \in ReqIds : CreateUserFile(r)

FaultSpec == Init /\ [][FaultNext]_vars

\* ------------------------------------------------------------------ claims

Done(r) == reqs[r].pc = "done"

\* the request passed validation and its lookup found no Content Object
Missed(r) ==
    /\ reqs[r].pc \in {"put", "create", "ref", "done"}
    /\ reqs[r].hash # NoHash
    /\ reqs[r].status # "invalid_content"
    /\ ~reqs[r].isExisting

LiveRefsOf(i) == { j \in UserFileIds : userFiles[j].fileId = i /\ ~userFiles[j].isDeleted }

StoredRefCount(h) == IF h \in DOMAIN refCount THEN refCount[h] ELSE 0

\* physical bytes referenced by the live references of an organization
OrgLiveBytes(org) ==
    SumSet({ files[userFiles[j].fileId].fileSize :
               j \in { i \in UserFileIds :
                         OrganizationID(userFiles[i].userId) = org /\ ~userFiles[i].isDeleted } })

Quiescent == \A r \in ReqIds : reqs[r].pc \in {"idle", "done"}

\* C1: in every reachable state, whatever the interleaving of ingests and
\* deletes, no two rows of table files carry the same content hash (and so
\* the same storage path).
C1_OneContentObjectPerFingerprint ==
    \A i, j \in FileIds :
        (\/ files[i].contentHash = files[j].contentHash
         \/ files[i].storagePath = files[j].storagePath) => i = j

\* two ingests of the same bytes both missed the lookup and raced at the
\* unique index: one row exists, the other insert was refused
C1_Witness ==
    \E r \in ReqIds :
        /\ reqs[r].status = "create_failed"
        /\ Cardinality({ i \in FileIds : files[i].contentHash = reqs[r].hash }) = 1

\* C2: when two principals concurrently ingest identical bytes that are not
\* yet stored (both lookups miss), and nothing else fails, both ingests end
\* successfully with two distinct references to one Content Object.
C2_BothConcurrentIngestsSucceed ==
    \A r1, r2 \in ReqIds :
        ( /\ r1 # r2
          /\ reqs[r1].user # reqs[r2].user
          /\ reqs[r1].content = reqs[r2].content
          /\ Missed(r1) /\ Missed(r2)
          /\ Done(r1) /\ Done(r2)
          /\ reqs[r1].status \notin {"storage_error", "reference_failed"}
          /\ reqs[r2].status \notin {"storage_error", "reference_failed"} )
        => /\ reqs[r1].status = "ok" /\ reqs[r2].status = "ok"
           /\ reqs[r1].fileId = reqs[r2].fileId
           /\ reqs[r1].userFileId # reqs[r2].userFileId

\* C3: for every content at most one object-store write is ever performed.
C3_AtMostOnePut ==
    \A p \in DOMAIN putCount : putCount[p] <= 1

\* C4: whenever no ingest is in flight, the stored reference count of every
\* Content Object equals the number of its live (non-deleted) references.
C4_RefCountEqualsLiveReferences ==
    Quiescent =>
        \A i \in FileIds :
            StoredRefCount(files[i].contentHash) = Cardinality(LiveRefsOf(i))

\* C5: an ingest by p2 that starts after p1's ingest of the same bytes has
\* succeeded is a dedup hit on p1's Content Object with bytes-saved equal to
\* the length of the bytes; successful ingests of the same bytes end with
\* distinct references to the same Content Object; the ingest that stored
\* the content reports bytes-saved zero.
C5_Results ==
    /\ \A r \in DoneOk :
          reqs[r].savingsBytes = (IF reqs[r].isExisting THEN reqs[r].content.len ELSE 0)
    /\ \A r1, r2 \in DoneOk :
          (r1 # r2 /\ reqs[r1].content = reqs[r2].content)
          => /\ reqs[r1].fileId = reqs[r2].fileId
             /\ reqs[r1].userFileId # reqs[r2].userFileId
             /\ userFiles[reqs[r1].userFileId].fileId = userFiles[reqs[r2].userFileId].fileId

C5_SecondIsHit ==
    \A r1, r2 \in ReqIds :
        ( /\ r1 \in DoneOk
          /\ ~reqs[r1].isExisting
          /\ reqs[r2].pc \in {"idle", "session"}
          /\ reqs'[r2].hash # NoHash
          /\ reqs'[r2].user # reqs[r1].user
          /\ reqs'[r2].content = reqs[r1].content )
        => /\ reqs'[r2].pc = "ref"
           /\ reqs'[r2].isExisting
           /\ reqs'[r2].fileId = reqs[r1].fileId
           /\ reqs'[r2].savingsBytes = reqs[r1].content.len

C5_SequentialDedup == []C5_Results /\ [][C5_SecondIsHit]_vars

\* p1 stored the bytes and reported zero saved, then p2 ingested the same
\* bytes and reported their length saved
C5_Witness ==
    \E r1, r2 \in DoneOk :
        /\ reqs[r1].user # reqs[r2].user
        /\ reqs[r1].content = reqs[r2].content
        /\ ~reqs[r1].isExisting /\ reqs[r1].savingsBytes = 0
        /\ reqs[r2].isExisting /\ reqs[r2].savingsBytes = reqs[r2].content.len
        /\ reqs[r2].savingsBytes > 0
        /\ reqs[r1].userFileId < reqs[r2].userFileId

\* C6: a successful download, by the ingesting principal, of the reference
\* an ingest returned yields the ingested bytes, with the same fingerprint.
C6_DownloadReturnsIngestedBytes ==
    \A r \in DoneOk :
        ( /\ lastResp.op = "download"
          /\ lastResp.status = 200
          /\ lastResp.user = reqs[r].user
          /\ lastResp.id = reqs[r].userFileId )
        => /\ lastResp.body = reqs[r].content
           /\ Sha256(lastResp.body) = reqs[r].hash

\* C7: whenever a reference exists, the object store holds, under the
\* storage path of the Content Object it points to, the bytes whose
\* fingerprint is that Content Object's content hash.
C7_ReferencedBytesReadable ==
    \A j \in UserFileIds :
        LET f == files[userFiles[j].fileId] IN
        /\ f.storagePath \in DOMAIN store
        /\ Sha256(store[f.storagePath]) = f.contentHash

\* C8: the used storage of an organization never exceeds its allocation.
C8_UsedNeverExceedsAllocated ==
    \A o \in Orgs : usedSpaceMB[o] <= allocatedMB[o]

\* C9: in an organization allocated 1 048 576 bytes whose live references
\* hold 1 048 570 bytes, every step that takes up an ingest of 7 bytes of
\* new content (the session request or the upload itself) ends it with
\* quota-exceeded, so that no object is written and used is unchanged.
C9_CliffStep ==
    \A r \in ReqIds :
        ( /\ reqs[r].pc \in {"idle", "session"}
          /\ reqs'[r] # reqs[r]
          /\ reqs'[r].content.len = 7
          /\ GetByContentHash(Sha256(reqs'[r].content)) = 0
          /\ allocatedMB[OrganizationID(reqs'[r].user)] * MiB = 1048576
          /\ OrgLiveBytes(OrganizationID(reqs'[r].user)) = 1048570 )
        => /\ reqs'[r].pc = "done"
           /\ reqs'[r].status = "quota_exceeded"

C9_QuotaCliffRejected == [][C9_CliffStep]_vars

\* C10: the step that completes a dedup hit (the reference insert of a
\* request whose lookup found content that some live reference already
\* points to) leaves the used storage of every organization as it was.
C10_HitStep ==
    \A r \in ReqIds :
        ( /\ reqs[r].pc = "ref"
          /\ reqs[r].isExisting
          /\ LiveRefsOf(reqs[r].fileId) # {}
          /\ reqs'[r].status = "ok" )
        => usedSpaceMB' = usedSpaceMB

C10_DedupHitLeavesUsedUnchanged == [][C10_HitStep]_vars

LiveUserFileIds == { i \in UserFileIds : ~userFiles[i].isDeleted }

\* the live references the principal holds under (folder, filename)
LiveNamed(u, n, f) ==
    { i \in LiveUserFileIds :
        /\ userFiles[i].userId = u
        /\ userFiles[i].userFilename = n
        /\ userFiles[i].folderPath = f }

C12_ConflictStep ==
    \A r \in ReqIds :
        ( /\ reqs[r].pc = "ref"
          /\ reqs'[r].pc = "done"
          /\ LiveNamed(reqs[r].user, reqs[r].filename, reqs[r].folder) # {} )
        => /\ reqs'[r].status = "reference_failed"
           /\ reqs'[r].userFileId = 0
           /\ userFiles' = userFiles
           /\ files' = files
           /\ store' = store
           /\ usedSpaceMB' = usedSpaceMB

TierDigit(c) ==
    IF c.userID = c.fileOwnerID THEN GetOwnerPermissions(c.filePermissions)
    ELSE IF c.filePrimaryGroupID # Nil /\ c.filePrimaryGroupID \in Elems(c.userGroupIDs)
    THEN GetGroupPermissions(c.filePermissions)
    ELSE GetOtherPermissions(c.filePermissions)

\* the step is a resolution
Resolves == ~permCheck.resolved /\ permCheck'.resolved

\* C13: for every permission and every principal of the owner's
\* organization who is in no admin group, when the file has no override,
\* both resolvers grant read and write exactly as the owner triad (owner),
\* else the group triad (member of the primary group), else the others
\* triad grants them.
C13_Step ==
    ( /\ Resolves
      /\ fileGroupPermissions = <<>>
      /\ OrganizationID(permCheck'.userID) = OrganizationID(permCheck'.fileOwnerID)
      /\ AdminGroup(OrganizationID(permCheck'.fileOwnerID))
            \notin Elems(permCheck'.userGroupIDs) )
    => LET d == TierDigit(permCheck') IN
       /\ permCheck'.calculated.CanRead = CanRead(d)
       /\ permCheck'.calculated.CanWrite = CanWrite(d)
       /\ permCheck'.parsed.CanRead = CanRead(d)
       /\ permCheck'.parsed.CanWrite = CanWrite(d)

C13_TriadByTier == [][C13_Step]_vars

\* C14: the permissions the metadata of a reference reports to a principal
\* whose organization is not the organization of the Content Object's owner
\* grant neither read nor write (nor what derives from them).
C14_CrossOrganizationDenied ==
    ( /\ lastResp.op = "metadata"
      /\ lastResp.status = 200
      /\ OrganizationID(lastResp.user)
            # OrganizationID(files[userFiles[lastResp.id].fileId].ownerId) )
    => /\ ~lastResp.perm.CanRead
       /\ ~lastResp.perm.CanWrite
       /\ ~lastResp.perm.CanDownload
       /\ ~lastResp.perm.CanDelete

\* C15: a member of the admin group of the owner's organization is granted
\* read and write by both resolvers, whatever the permission, the owner and
\* the primary group.
C15_Step ==
    ( /\ Resolves
      /\ AdminGroup(OrganizationID(permCheck'.fileOwnerID))
            \in Elems(permCheck'.userGroupIDs) )
    => /\ permCheck'.calculated.CanRead /\ permCheck'.calculated.CanWrite
       /\ permCheck'.parsed.CanRead /\ permCheck'.parsed.CanWrite

C15_AdminOverride == [][C15_Step]_vars

\* the groups of the principal that have an override on the file
OverridingGroups(c) == DOMAIN fileGroupPermissions \cap Elems(c.userGroupIDs)

\* C16: a principal who is not the owner and belongs to groups with an
\* override on the file is granted read (write) by both resolvers exactly
\* when the group triad of the override of one of these groups grants it
\* (the bitwise OR of the overrides).
C16_Step ==
    ( /\ Resolves
      /\ permCheck'.userID # permCheck'.fileOwnerID
      /\ OverridingGroups(permCheck') # {} )
    => LET read == \E g \in OverridingGroups(permCheck') :
                      CanRead(GetGroupPermissions(fileGroupPermissions[g]))
           write == \E g \in OverridingGroups(permCheck') :
                      CanWrite(GetGroupPermissions(fileGroupPermissions[g]))
       IN /\ permCheck'.calculated.CanRead = read
          /\ permCheck'.calculated.CanWrite = write
          /\ permCheck'.parsed.CanRead = read
          /\ permCheck'.parsed.CanWrite = write

C16_OverrideApplies == [][C16_Step]_vars

\* C17: for every principal and every reference whose metadata the
\* principal can obtain, the permissions reported grant read if and only if
\* the download of the reference by the principal is not answered 403.
C17_ReadIffDownloadNotForbidden ==
    \A u \in Users, id \in UserFileIds :
        MetadataStatus(u, id) = 200
        => (MetadataPermissions(u, id).CanRead <=> DownloadStatus(u, id) # 403)

\* ---------------------------------------------------- rate limiter claims

\* ticks since the first request of the user
Elapsed(u) == now - apiLog[u].firstAt

\* C18: of the requests an authenticated user issues within an interval too
\* short for one token to be refilled, at most RateLimitBurst are admitted;
\* so of six requests within one tick the sixth is refused.
C18_BurstBound ==
    \A u \in Users :
        ( /\ apiLog[u].admitted + apiLog[u].refused > 0
          /\ Elapsed(u) * RateLimitRPS < TicksPerSecond )
        => apiLog[u].admitted <= RateLimitBurst

\* C19: once the burst is spent, one more request is admitted per token
\* refilled: while the time since the first request suffices for exactly one
\* token, at most RateLimitBurst + 1 requests were admitted; and no bucket
\* holds more tokens than its burst.
C19_RefillBound ==
    /\ \A u \in Users :
          ( /\ apiLog[u].admitted + apiLog[u].refused > 0
            /\ (Elapsed(u) * RateLimitRPS) \div TicksPerSecond = 1 )
          => apiLog[u].admitted <= RateLimitBurst + 1
    /\ \A u \in DOMAIN userBuckets :
          Tokens(userBuckets[u], now) <= userBuckets[u].burst * TokenUnit

\* C20: a step that admits a request of a user has taken one token from the
\* bucket of the user and one from the bucket of the user's organization.
C20_AdmitStep ==
    \A u \in Users :
        apiLog'[u].admitted > apiLog[u].admitted
        => /\ u \in DOMAIN userBuckets'
           /\ userBuckets'[u].tokens <= (userBuckets'[u].burst - 1) * TokenUnit
           /\ OrganizationID(u) \in DOMAIN orgBuckets'
           /\ orgBuckets'[OrganizationID(u)].tokens
                 <= (orgBuckets'[OrganizationID(u)].burst - 1) * TokenUnit

C20_TokenFromBothBuckets == [][C20_AdmitStep]_vars

\* C21: deleting a reference is idempotent: a delete request on a reference
\* that was already deleted is answered 404 (not found) and changes nothing
\* that is stored.
C21_Step ==
    ( /\ lastResp' # lastResp
      /\ lastResp'.op = "delete"
      /\ lastResp'.id \in UserFileIds
      /\ userFiles[lastResp'.id].isDeleted )
    => /\ lastResp'.status = 404
       /\ UNCHANGED <<files, userFiles, store, putCount, refCount, usedSpaceMB, allocatedMB>>

C21_DeleteIdempotent == [][C21_Step]_vars

\* the owner's second delete request on a reference has been answered 404
C21_Witness ==
    /\ lastResp.op = "delete"
    /\ lastResp.status = 404
    /\ lastResp.id \in UserFileIds
    /\ userFiles[lastResp.id].userId = lastResp.user
    /\ userFiles[lastResp.id].isDeleted

\* the stored status of the session of a token, "none" when no row holds it
StoredStatus(tok) ==
    IF GetUploadSession(tok) = 0 THEN "none"
    ELSE uploadSessions[GetUploadSession(tok)].status

TerminalStatuses == {UploadStatusCompleted, UploadStatusFailed}

\* C22: a session is created in pending, is in progress from the first ingest
\* attempted under its token, then completed or failed: every token handed
\* out has a stored session whose status is pending as long as no ingest was
\* attempted and no completion was requested, and is no longer pending once
\* an ingest was attempted; the status reported to the owner is the stored
\* one; a completed or failed session never changes again.
C22_Stored ==
    \A tok \in TokenIds :
        Issued(tok) =>
            /\ StoredStatus(tok) \in
                  {UploadStatusPending, UploadStatusInProgress} \cup TerminalStatuses
            /\ (~sessionLog[tok].attempted /\ sessionLog[tok].completes = 0)
                  => StoredStatus(tok) = UploadStatusPending
            /\ sessionLog[tok].attempted => StoredStatus(tok) # UploadStatusPending
            /\ ( /\ sessResp.op = "progress" /\ sessResp.token = tok
                 /\ sessResp.user = sessionOwner[tok] )
                  => sessResp.status = StoredStatus(tok)

C22_TerminalStep ==
    \A i \in 1..Len(uploadSessions) :
        uploadSessions[i].status \in TerminalStatuses
        => /\ i \in 1..Len(uploadSessions')
           /\ uploadSessions'[i] = uploadSessions[i]

C22_SessionLifecycle == []C22_Stored /\ [][C22_TerminalStep]_vars

\* C23: completing a session is applied exactly once: after a complete-session
\* request of the owner was answered with success, exactly one stored session
\* holds the token, it is in a terminal status and carries a completion time;
\* and a step that finds the session terminal leaves its status and
\* completion time as they are.
C23_Applied ==
    ( /\ sessResp.op = "complete" /\ sessResp.code = 200
      /\ Issued(sessResp.token)
      /\ sessionOwner[sessResp.token] = sessResp.user )
    => /\ Cardinality({i \in 1..Len(uploadSessions) :
                          uploadSessions[i].sessionToken = sessResp.token}) = 1
       /\ StoredStatus(sessResp.token) \in TerminalStatuses
       /\ uploadSessions[GetUploadSession(sessResp.token)].completedAt # Nil

C23_KeepStep ==
    \A i \in 1..Len(uploadSessions) :
        uploadSessions[i].status \in TerminalStatuses
        => /\ i \in 1..Len(uploadSessions')
           /\ uploadSessions'[i].status = uploadSessions[i].status
           /\ uploadSessions'[i].completedAt = uploadSessions[i].completedAt

C23_CompleteAtMostOnce == []C23_Applied /\ [][C23_KeepStep]_vars

\* C24: the progress of a session is readable by its owner, and a progress
\* request of anybody else is answered 404, as is one for a token that was
\* never handed out.
C24_ForeignProgressNotFound ==
    sessResp.op = "progress"
    => IF Issued(sessResp.token) /\ sessionOwner[sessResp.token] = sessResp.user
       THEN sessResp.code = 200
       ELSE sessResp.code = 404

\* the closed vocabulary of audit action names
AuditVocabulary ==
    {"file_upload", "file_download", "file_delete", "user_login", "user_logout",
     "permission_change", "rate_limit_exceeded", "security_violation",
     "quota_exceeded", "audit_cleanup"}

StateChanging == {"ingest", "delete", "complete"}

\* the request just served changed state, succeeded, and affected res
Succeeded(res) ==
    /\ ginContext.op \in StateChanging
    /\ ginContext.code < 400
    /\ ginContext.resource = res

Audited(res) == \E k \in 1..Len(auditLogs) : auditLogs[k].resourceID = res

\* C25: every state-changing operation that returns success is eventually
\* followed by an audit event whose resource id is the resource affected.
C25_SuccessEventuallyAudited ==
    \A res \in AuditResources : Succeeded(res) ~> Audited(res)

\* C26: every audit event recorded has an action name of the closed
\* vocabulary.
C26_ActionInVocabulary ==
    \A k \in 1..Len(auditLogs) : auditLogs[k].action \in AuditVocabulary

\* the system groups an organization is to have, with their permissions
SystemGroups == {<<"admin", 777>>, <<"users", 664>>, <<"guests", 444>>}

GroupsOfOrg(id) == {g \in orgDb.groups : g.organizationId = id}

\* C27: after a successful creation of an organization its three system
\* groups admin (777), users (664), guests (444) exist and the creator is a
\* member of admin; after a failed creation no row of it exists.
C27_OrganizationCreatedWhole ==
    /\ orgResult.status = "ok"
       => /\ {<<g.name, g.permissions>> : g \in GroupsOfOrg(orgResult.id)} = SystemGroups
          /\ \A g \in GroupsOfOrg(orgResult.id) : g.isSystemGroup
          /\ [userId |-> orgResult.creator, organizationId |-> orgResult.id,
              group |-> "admin"] \in orgDb.userGroups
    /\ orgResult.status = "failed"
       => /\ GroupsOfOrg(orgResult.id) = {}
          /\ ~\E o \in orgDb.organizations : o.id = orgResult.id
          /\ ~\E m \in orgDb.userGroups : m.organizationId = orgResult.id
          /\ ~\E m \in orgDb.userOrganizations : m.organizationId = orgResult.id
          /\ ~\E st \in orgDb.stats : st.organizationId = orgResult.id

\* C28: the Content Object row and the User Reference of one ingest are
\* committed together: an ingest that missed and did not succeed has created
\* no reference and has left no Content Object row of its own.
C28_RowAndReferenceTogether ==
    \A r \in ReqIds :
        (Done(r) /\ Missed(r) /\ reqs[r].status # "ok")
        => /\ reqs[r].userFileId = 0
           /\ ~( /\ reqs[r].fileId \in FileIds
                 /\ files[reqs[r].fileId].contentHash = reqs[r].hash
                 /\ files[reqs[r].fileId].ownerId = reqs[r].user )

\* C29: an ingest of content that fails validation (an empty file) is
\* refused as invalid content and changes nothing: no object, no Content
\* Object row, no reference, no reference count, no storage statistics.
C29_Step ==
    \A r \in ReqIds :
        ( /\ reqs[r].hash = NoHash
          /\ reqs'[r].hash # NoHash
          /\ reqs'[r].content.len = 0 )
        => /\ reqs'[r].pc = "done"
           /\ reqs'[r].status = "invalid_content"
           /\ reqs'[r].fileId = 0 /\ reqs'[r].userFileId = 0
           /\ UNCHANGED <<files, userFiles, store, putCount, refCount,
                          usedSpaceMB, allocatedMB>>

C29_Final ==
    \A r \in ReqIds :
        (reqs[r].hash # NoHash /\ reqs[r].content.len = 0)
        => /\ reqs[r].pc = "done"
           /\ reqs[r].status = "invalid_content"
           /\ generateStoragePath(reqs[r].hash) \notin DOMAIN store

C30_StoredBytesAreValidatedBytes ==
    \A p \in DOMAIN store :
        /\ generateStoragePath(Sha256(store[p])) = p
        /\ \A i \in FileIds :
              files[i].storagePath = p
              => /\ Sha256(store[p]) = files[i].contentHash
                 /\ store[p].len = files[i].fileSize

\* a filename the specification forbids: empty, containing one of the
\* dangerous sequences or NUL, or longer than 255 characters
ForbiddenName(name) ==
    \/ name = <<>>
    \/ \E d \in { <<".", ".", "/">>, <<".", ".", "\\">>, <<"<">>, <<">">>, <<":">>,
                  <<"\"">>, <<"|">>, <<"?">>, <<"*">>, <<"NUL">> } : Contains(name, d)
    \/ Len(name) > 255

\* 1 <= size <= MaxFileSize, for a size of size[1] MiB and size[2] bytes
SizeInRange(size) ==
    /\ size # <<0, 0>>
    /\ \/ size[1] < MaxFileSizeMiB
       \/ size = <<MaxFileSizeMiB, 0>>

\* C31: when virus scanning is enabled and the scanner answers FOUND, the
\* ingest is rejected and no object and no reference is created.
C31_InfectedIngestRejected ==
    (lastValidation.done /\ lastValidation.enabled /\ lastValidation.scanner = "FOUND")
        => (lastValidation.rejected /\ lastValidation.reference = <<>>)

C33_ForbiddenNamesRejected ==
    lastValidation.done =>
        /\ (ForbiddenName(lastValidation.filename) \/ ForbiddenName(lastValidation.userFilename))
              => (lastValidation.rejected /\ lastValidation.reference = <<>>)
        /\ \A i \in 1..Len(lastValidation.reference) :
              ~ForbiddenName(lastValidation.reference[i])

C35_Step ==
    \A r \in ReqIds :
        ( /\ reqs[r].pc = "ref"
          /\ reqs'[r].pc = "done"
          /\ LiveNamed(reqs[r].user, reqs[r].filename, reqs[r].folder) = {} )
        => /\ reqs'[r].status = "ok"
           /\ reqs'[r].userFileId \in UserFileIds'

C35_ReuseNameAfterDelete == [][C35_Step]_vars

\* the Content Objects that live references of the organization point to
LiveContentOf(org) ==
    { userFiles[i].fileId :
        i \in { j \in UserFileIds :
                  OrganizationID(userFiles[j].userId) = org /\ ~userFiles[j].isDeleted } }

RECURSIVE SumFileSizes(_)
SumFileSizes(ids) ==
    IF ids = {} THEN 0
    ELSE LET i == CHOOSE x \in ids : TRUE
         IN files[i].fileSize + SumFileSizes(ids \ {i})

\* C36: an organization's used space is the sum of the sizes of the distinct
\* Content Objects its live references point to (in whole megabytes, the
\* unit of used_space_mb).
C36_UsedIsLiveDistinctContent ==
    \A org \in Orgs : usedSpaceMB[org] = SumFileSizes(LiveContentOf(org)) \div MiB

\* the buckets of both maps, by the map they are in
AllIdleBuckets ==
    { <<"user", u, idleBuckets.userBuckets[u]>> : u \in DOMAIN idleBuckets.userBuckets }
      \cup { <<"org", o, idleBuckets.orgBuckets[o]>> : o \in DOMAIN idleBuckets.orgBuckets }

\* C37: a run of the cleanup removes exactly the buckets whose last access is
\* more than 30 minutes old and keeps those accessed within the last 30
\* minutes ...
C37_Step ==
    idleBuckets'.lastCleanup # idleBuckets.lastCleanup =>
        LET t == idleBuckets.now IN
        /\ idleBuckets'.lastCleanup = t
        /\ t % 5 = 0
        /\ \A u \in DOMAIN idleBuckets.userBuckets :
              IF t - idleBuckets.userBuckets[u] > 30
              THEN u \notin DOMAIN idleBuckets'.userBuckets
              ELSE /\ u \in DOMAIN idleBuckets'.userBuckets
                   /\ idleBuckets'.userBuckets[u] = idleBuckets.userBuckets[u]
        /\ \A o \in DOMAIN idleBuckets.orgBuckets :
              IF t - idleBuckets.orgBuckets[o] > 30
              THEN o \notin DOMAIN idleBuckets'.orgBuckets
              ELSE /\ o \in DOMAIN idleBuckets'.orgBuckets
                   /\ idleBuckets'.orgBuckets[o] = idleBuckets.orgBuckets[o]
        /\ DOMAIN idleBuckets'.userBuckets \subseteq DOMAIN idleBuckets.userBuckets
        /\ DOMAIN idleBuckets'.orgBuckets \subseteq DOMAIN idleBuckets.orgBuckets

\* ... so every bucket present was accessed within the last 35 minutes
C37_Bounded ==
    \A b \in AllIdleBuckets : idleBuckets.now - b[3] <= 35

C37_ReaperBoundsBuckets == []C37_Bounded /\ [][C37_Step]_vars

\* a cleanup has just removed a bucket idle for more than 30 minutes and kept
\* one idle for exactly 30 minutes
C37_Witness ==
    /\ idleBuckets.lastCleanup = idleBuckets.now
    /\ idleBuckets.removed # {}
    /\ \E b \in AllIdleBuckets : idleBuckets.now - b[3] = 30

\* C38: an ingest whose fingerprint lookup failed (for a reason other than
\* 'no such content') is aborted with an error: it is never carried on as a
\* dedup miss, to the object write, the Content Object row or a reference.
C38_FailedLookupAborts ==
    \A r \in ReqIds :
        reqs[r].lookupErr =>
            /\ reqs[r].pc = "done"
            /\ reqs[r].status # "ok"
            /\ reqs[r].fileId = 0

\* C39: ParseLinuxPermissions and calculateUserFilePermissions give the same
\* can-read, can-write, can-download, can-delete and can-share for every
\* stored permission value, owner, primary group and group memberships.
C39_EvaluatorsAgree ==
    permCheck.resolved =>
        /\ permCheck.parsed.CanRead = permCheck.calculated.CanRead
        /\ permCheck.parsed.CanWrite = permCheck.calculated.CanWrite
        /\ permCheck.parsed.CanDownload = permCheck.calculated.CanDownload
        /\ permCheck.parsed.CanDelete = permCheck.calculated.CanDelete
        /\ permCheck.parsed.CanShare = permCheck.calculated.CanShare

\* C40: every event the audit middleware writes carries the user, the
\* method, the path and the status code of the request that started its
\* goroutine, whatever other requests are served meanwhile.
C40_Step ==
    Len(auditLogs') = Len(auditLogs) + 1 =>
        \E i \in 1..Len(auditPending) :
            LET q == auditPending[i]
                e == auditLogs'[Len(auditLogs')]
            IN /\ Len(auditPending') = Len(auditPending) - 1
               /\ \A j \in 1..Len(auditPending') :
                     auditPending'[j] = IF j < i THEN auditPending[j]
                                        ELSE auditPending[j + 1]
               /\ e.userID = q.userID
               /\ e.details.method = q.method
               /\ e.details.path = q.path
               /\ e.details.status_code = q.code

C40_EventCarriesItsRequest == [][C40_Step]_vars
====
